---- MODULE Spec2Model ----
(***************************************************************************)
(* AI-News MCP tools: the Express servers src/server.js (all four tool     *)
(* routes) and src/ai-news-mcp-tools/server.js (the two-route variant).    *)
(*                                                                         *)
(* A connection slot carries one HTTP request through the server.  Every   *)
(* action is one run-to-completion segment of a handler: from the arrival  *)
(* of the request (or the settling of the awaited fetch) up to the next    *)
(* await or to the response.  Text is a sequence of one-symbol strings, so *)
(* that split, trim and whitespace collapsing are computed, not assumed.   *)
(* A request carries the body express.json() parsed into an object; what  *)
(* the JSON middleware refuses reaches no route and is not modelled.       *)
(***************************************************************************)
EXTENDS Integers, Sequences, FiniteSets, TLC

VARIABLES server, env, scenario, reqs, clock, disk

vars == <<server, env, scenario, reqs, clock, disk>>

\* Concurrent client requests of the "concurrent" scenario.
MaxReqs == 2
\* Distinct millisecond readings the clock can return, beyond the first.
MaxClock == 1

(***************************************************************************)
(* JavaScript values                                                       *)
(***************************************************************************)
\* null / undefined where a string is expected.  Strings are sequences, so
\* this is one too (TLC compares sequences with sequences only).
Null == <<"undefined">>
\* an object that is not there
None == [none |-> TRUE]
\* the empty object {}
EmptyObject == [k \in {} |-> Null]

Has(obj, key) == key \in DOMAIN obj
\* obj.key, undefined when the key is absent
Get(obj, key) == IF Has(obj, key) THEN obj[key] ELSE Null
\* !v for the values of this model: undefined, null and "" are falsy
Falsy(v) == Null = v \/ <<>> = v
\* a || b
OrElse(a, b) == IF Falsy(a) THEN b ELSE a

Min(a, b) == IF a < b THEN a ELSE b

(***************************************************************************)
(* String helpers (String.prototype.split / trim, /\s+/g collapsing)       *)
(***************************************************************************)
SP == " "

RECURSIVE SplitAcc(_, _, _)
SplitAcc(s, cur, acc) ==
  IF s = <<>> THEN Append(acc, cur)
  ELSE IF Head(s) = SP THEN SplitAcc(Tail(s), <<>>, Append(acc, cur))
  ELSE SplitAcc(Tail(s), Append(cur, Head(s)), acc)

\* s.split(' '): the pieces between single spaces, empty pieces kept
Split(s) == SplitAcc(s, <<>>, <<>>)

RECURSIVE TrimLeft(_)
TrimLeft(s) == IF s # <<>> /\ Head(s) = SP THEN TrimLeft(Tail(s)) ELSE s

RECURSIVE TrimRight(_)
TrimRight(s) ==
  IF s # <<>> /\ s[Len(s)] = SP THEN TrimRight(SubSeq(s, 1, Len(s) - 1)) ELSE s

\* s.trim()
Trim(s) == TrimRight(TrimLeft(s))

RECURSIVE Collapse(_)
\* s.replace(/\s+/g, ' ')
Collapse(s) ==
  IF Len(s) < 2 THEN s
  ELSE IF Head(s) = SP /\ s[2] = SP THEN Collapse(Tail(s))
  ELSE <<Head(s)>> \o Collapse(Tail(s))

(***************************************************************************)
(* Configuration: process.env                                              *)
(***************************************************************************)
RootServer == "server.js"
ToolsServer == "ai-news-mcp-tools/server.js"

Secret == <<"s">>
\* a secret with a space in it
SpacedSecret == <<"a", SP, "b">>
Bearer(tok) == <<"Bearer", SP>> \o tok

Envs ==
  [BE_TOKEN : {<<>>, Secret, SpacedSecret}, OPENAI_API_KEY : {<<>>, <<"sk">>}, FAL_KEY : {<<>>, <<"key">>}]

\* routes registered with app.post
Routes(srv) ==
  IF srv = RootServer
  THEN {"summarize_article", "fal_generate", "process_news_url", "fal_flux_lora_generate"}
  ELSE {"summarize_article", "fal_flux_lora_generate"}

AllRoutes == Routes(RootServer)

(***************************************************************************)
(* Requests                                                                *)
(***************************************************************************)
\* Authorization header values a client may send (Null: no header)
AuthHeaders ==
  { Null,
    Bearer(Secret),
    Bearer(<<"t">>),
    Bearer(SpacedSecret),
    Secret,
    <<"Bearer", SP, SP>> \o Secret,
    <<"Basic", SP>> \o Secret }

DefaultLora == [path |-> <<"https://v3.fal.media/lora.safetensors">>, scale |-> 1]

\* values of the loras field: null, a non-array, [] and a one-element array
LorasValues ==
  { [kind |-> "null", items |-> <<>>],
    [kind |-> "string", items |-> <<>>],
    [kind |-> "array", items |-> <<>>],
    [kind |-> "array", items |-> <<DefaultLora>>] }

Bodies(route) ==
  CASE route = "summarize_article" ->
         {EmptyObject, [text |-> <<>>], [text |-> <<"C">>]}
    [] route = "fal_generate" ->
         {EmptyObject, [prompt |-> <<>>], [prompt |-> <<"P">>]}
    [] route = "fal_flux_lora_generate" ->
         {EmptyObject, [prompt |-> <<>>], [prompt |-> <<"P">>],
          [loras |-> [kind |-> "array", items |-> <<DefaultLora>>]]}
         \cup [prompt : {<<>>, <<"P">>}, loras : LorasValues]
    [] route = "process_news_url" ->
         {EmptyObject, [url |-> <<>>], [url |-> <<"https://example.com">>]}

ClientRequests ==
  UNION { [route : {r}, authorization : AuthHeaders, body : Bodies(r)] : r \in AllRoutes }

(***************************************************************************)
(* What the text-completion provider can answer (node-fetch outcomes)      *)
(***************************************************************************)
RequiredKeys == <<"summary_one_liner", "visual_brief", "image_prompt", "action">>
ExtraKey == "source"
ReplyKeys == {RequiredKeys[n] : n \in 1..Len(RequiredKeys)} \cup {ExtraKey}

SKIP == <<"SKIP">>
PROCEED == <<"PROCEED">>

KeyValue(k) ==
  CASE k = "summary_one_liner" -> <<"S">>
    [] k = "visual_brief" -> <<"V">>
    [] k = "image_prompt" -> <<"P">>
    [] k = "action" -> PROCEED
    [] OTHER -> <<"X">>

\* JSON objects the provider may put in its reply
SummaryObjects ==
  UNION { { [k \in K |-> IF k = "action" THEN a
                         ELSE IF k = "image_prompt" THEN p ELSE KeyValue(k)]
            : a \in {PROCEED, SKIP}, p \in {<<"P">>, <<>>} }
          : K \in SUBSET ReplyKeys }

GoodSummary == [k \in ReplyKeys \ {ExtraKey} |-> KeyValue(k)]
SkipSummary == [GoodSummary EXCEPT !["action"] = SKIP]

\* The reply text is a sequence of tokens: code-fence markers, the tokens of
\* a JSON text, or prose.  Whitespace between tokens is left out.
FenceJson == "fence:json"
Fence == "fence"
Prose == "prose"

\* the token "key": value of an object member
Member(k, v) ==
  CASE k = "summary_one_liner" -> "summary_one_liner:S"
    [] k = "visual_brief" -> "visual_brief:V"
    [] k = "image_prompt" -> IF v = <<>> THEN "image_prompt:" ELSE "image_prompt:P"
    [] k = "action" -> IF v = SKIP THEN "action:SKIP" ELSE "action:PROCEED"
    [] OTHER -> "source:X"

Members ==
  { "summary_one_liner:S", "visual_brief:V", "image_prompt:", "image_prompt:P",
    "action:SKIP", "action:PROCEED", "source:X" }

MemberKey(m) ==
  CASE m = "summary_one_liner:S" -> "summary_one_liner"
    [] m = "visual_brief:V" -> "visual_brief"
    [] m \in {"image_prompt:", "image_prompt:P"} -> "image_prompt"
    [] m \in {"action:SKIP", "action:PROCEED"} -> "action"
    [] OTHER -> ExtraKey

MemberValue(m) ==
  CASE m = "summary_one_liner:S" -> <<"S">>
    [] m = "visual_brief:V" -> <<"V">>
    [] m = "image_prompt:" -> <<>>
    [] m = "image_prompt:P" -> <<"P">>
    [] m = "action:SKIP" -> SKIP
    [] m = "action:PROCEED" -> PROCEED
    [] OTHER -> <<"X">>

KeyOrder == RequiredKeys \o <<ExtraKey>>

RECURSIVE MemberTokens(_, _)
MemberTokens(obj, keys) ==
  IF keys = <<>> THEN <<>>
  ELSE IF Has(obj, Head(keys))
       THEN <<Member(Head(keys), obj[Head(keys)])>> \o MemberTokens(obj, Tail(keys))
       ELSE MemberTokens(obj, Tail(keys))

\* the JSON text of an object
JsonText(obj) == <<"{">> \o MemberTokens(obj, KeyOrder) \o <<"}">>

SummaryContents ==
  { <<>>, <<Prose>>, <<"null">>, <<"[", "]">>, <<"{", "summary_one_liner:S">> }
  \cup { JsonText(o) : o \in SummaryObjects }
  \cup { <<FenceJson>> \o JsonText(GoodSummary) \o <<Fence>>,
         <<Fence>> \o JsonText(SkipSummary) \o <<Fence>>,
         <<FenceJson>> \o JsonText(GoodSummary),
         JsonText(GoodSummary) \o <<Fence>>,
         <<FenceJson, Fence>> }

CaptionContents == { <<>>, <<SP>>, <<"c">>, <<SP, "c", SP>> }

\* the parsed body of a 200 reply: {choices: [{message: {content}}]}
ChatData(contents) ==
  { [id |-> <<"chatcmpl">>],
    [choices |-> <<>>],
    [choices |-> << [message |-> [role |-> <<"assistant">>]] >>] }
  \cup { [choices |-> << [message |-> [content |-> c]] >>] : c \in contents }

ProviderErrorStatuses == {401, 500}

\* fetch outcomes: the promise rejects, a non-ok status, a 200 whose body is
\* not JSON, a 200 with parsed data
FetchOutcomes(datas) ==
  { [kind |-> "reject", status |-> 0, data |-> None],
    [kind |-> "badbody", status |-> 200, data |-> None] }
  \cup { [kind |-> "http", status |-> st, data |-> None] : st \in ProviderErrorStatuses }
  \cup { [kind |-> "json", status |-> 200, data |-> d] : d \in datas }

(***************************************************************************)
(* Connection slots                                                        *)
(***************************************************************************)
Clients == 1..MaxReqs
\* the slot of the loopback request a process_news_url run has in flight
Child(i) == i + MaxReqs
Slots == 1..(2 * MaxReqs)

\* the clients that send a request in a scenario
ClientIds(sc) == IF sc = "single" THEN {1} ELSE Clients

\* pc: where the handler stands; req, resp: the request and its response;
\* ctx: the locals of the workflow handler; log: what the handling of the
\* request did so far, in order; got: what the outside world handed to it, in
\* order; wrote: the file it saved; peers: the clients whose requests were
\* being served when this one was sent
FreeSlot ==
  [pc |-> "free", req |-> None, resp |-> None, ctx |-> None,
   log |-> <<>>, got |-> <<>>, wrote |-> Null, peers |-> {}]

\* res.status(status).json(body): the handler returns
Responded(slot, status, body, events) ==
  [slot EXCEPT !.pc = "done",
               !.resp = [status |-> status, body |-> body],
               !.log = @ \o events \o <<"respond">>]

\* the handler is suspended in an await
Awaiting(slot, pc, events) == [slot EXCEPT !.pc = pc, !.log = @ \o events]

\* a request put on the wire towards this server
Sent(slot, req) == [FreeSlot EXCEPT !.pc = "sent", !.req = req]

\* the handler consumed an outcome of the outside world
Got(slot, outcome) == [slot EXCEPT !.got = Append(@, outcome)]

Range(seq) == {seq[n] : n \in DOMAIN seq}

\* the response of a loopback call as the workflow handler's fetch sees it
Loopback(child) ==
  [kind |-> "loopback", status |-> child.resp.status, data |-> child.resp.body]

(***************************************************************************)
(* authenticateToken                                                       *)
(***************************************************************************)
\* authHeader && authHeader.split(' ')[1]
TokenOf(authHeader) ==
  IF Falsy(authHeader) THEN authHeader
  ELSE IF Len(Split(authHeader)) >= 2 THEN Split(authHeader)[2] ELSE Null

AuthenticateTokenNoCompare(beToken, req) ==
  IF Falsy(beToken) THEN "next"
  ELSE IF Falsy(TokenOf(req.authorization)) THEN "401" ELSE "next"

\* "next" when the handler runs, "401" when the gate answers
AuthenticateToken(beToken, req) ==
  IF Falsy(beToken) THEN "next"
  ELSE IF Falsy(TokenOf(req.authorization)) \/ TokenOf(req.authorization) # beToken
       THEN "401"
       ELSE "next"

Unauthorized(slot) ==
  Responded(slot, 401, [error |-> <<"unauthorized">>], <<"auth:401">>)

(***************************************************************************)
(* POST /tools/summarize_article                                           *)
(***************************************************************************)
SummarizeArticleConfigFirst(e, slot) ==
  IF AuthenticateToken(e.BE_TOKEN, slot.req) = "401" THEN Unauthorized(slot)
  ELSE IF Falsy(e.OPENAI_API_KEY)
       THEN Responded(slot, 500, [error |-> <<"OpenAI API key not configured">>],
                      <<"validate">>)
  ELSE IF Falsy(Get(slot.req.body, "text"))
       THEN Responded(slot, 400, [error |-> <<"text is required">>], <<"validate">>)
  ELSE Awaiting(slot, "await_openai", <<"validate", "fetch:openai">>)

\* from the arrival of the request to the await of the provider call
SummarizeArticle(e, slot) ==
  IF AuthenticateToken(e.BE_TOKEN, slot.req) = "401" THEN Unauthorized(slot)
  ELSE IF Falsy(Get(slot.req.body, "text"))
       THEN Responded(slot, 400, [error |-> <<"text is required">>], <<"validate">>)
  ELSE IF Falsy(e.OPENAI_API_KEY)
       THEN Responded(slot, 500, [error |-> <<"OpenAI API key not configured">>],
                      <<"validate">>)
  ELSE Awaiting(slot, "await_openai", <<"validate", "fetch:openai">>)

\* data.choices[0]?.message?.content; data.choices undefined throws
ChoiceContent(data) ==
  IF data.choices = <<>> THEN Null ELSE Get(data.choices[1].message, "content")

\* .replace(/\s*```$/, '')
DropClosingFence(c) ==
  IF c # <<>> /\ c[Len(c)] = Fence THEN SubSeq(c, 1, Len(c) - 1) ELSE c

\* lines 174-180: strip a surrounding markdown fence
CleanContent(content) ==
  LET c1 == IF content # <<>> /\ Head(content) = FenceJson
            THEN DropClosingFence(Tail(content)) ELSE content
  IN  IF c1 # <<>> /\ Head(c1) = Fence THEN DropClosingFence(Tail(c1))
      ELSE IF c1 # <<>> /\ Head(c1) = FenceJson THEN <<Prose>> \o Tail(c1)
      ELSE c1

\* the object a member list denotes; a repeated key keeps its last value
ObjectOf(ms) ==
  [k \in {MemberKey(ms[n]) : n \in DOMAIN ms} |->
     MemberValue(ms[CHOOSE n \in DOMAIN ms :
                      /\ MemberKey(ms[n]) = k
                      /\ \A m \in DOMAIN ms : MemberKey(ms[m]) = k => m <= n])]

\* JSON.parse: null, [], or { members }; anything else is a SyntaxError
JSONParse(c) ==
  IF c = <<"null">> THEN [ok |-> TRUE, kind |-> "primitive", val |-> None]
  ELSE IF c = <<"[", "]">> THEN [ok |-> TRUE, kind |-> "object", val |-> [length |-> <<"0">>]]
  ELSE IF /\ Len(c) >= 2
          /\ Head(c) = "{"
          /\ c[Len(c)] = "}"
          /\ \A n \in 2..(Len(c) - 1) : c[n] \in Members
       THEN [ok |-> TRUE, kind |-> "object", val |-> ObjectOf(SubSeq(c, 2, Len(c) - 1))]
  ELSE [ok |-> FALSE, kind |-> "SyntaxError", val |-> None]

\* requiredKeys.filter(key => !(key in parsedContent))
MissingKeys(parsed) == SelectSeq(RequiredKeys, LAMBDA k : ~Has(parsed, k))

RECURSIVE Join(_, _)
\* keys.join(', ')
Join(keys, sep) ==
  IF keys = <<>> THEN <<>>
  ELSE IF Len(keys) = 1 THEN keys
  ELSE <<Head(keys), sep>> \o Join(Tail(keys), sep)

ValidateSummaryUnchecked(slot, content, text) ==
  LET parsed == JSONParse(text) IN
  IF ~parsed.ok \/ parsed.kind = "primitive"
  THEN Responded(slot, 500,
         [error |-> <<"Failed to parse OpenAI response as JSON">>, raw_content |-> content], <<>>)
  ELSE Responded(slot, 200, parsed.val, <<>>)

ValidateSummaryNoReturn(slot, content, text) ==
  LET parsed == JSONParse(text) IN
  IF ~parsed.ok \/ parsed.kind = "primitive"
  THEN Responded(slot, 500,
         [error |-> <<"Failed to parse OpenAI response as JSON">>, raw_content |-> content], <<>>)
  ELSE IF MissingKeys(parsed.val) # <<>>
  THEN Responded(
         Responded(slot, 500,
           [error |-> <<"Invalid response format. Missing keys: ">>
                        \o Join(MissingKeys(parsed.val), ", "),
            received |-> parsed.val], <<>>),
         200, parsed.val, <<>>)
  ELSE Responded(slot, 200, parsed.val, <<>>)

\* the inner try: parse, check the required keys, answer; the 'in' operator
\* throws on a parsed primitive and the inner catch answers
ValidateSummary(slot, content, text) ==
  LET parsed == JSONParse(text) IN
  IF ~parsed.ok \/ parsed.kind = "primitive"
  THEN Responded(slot, 500,
         [error |-> <<"Failed to parse OpenAI response as JSON">>, raw_content |-> content], <<>>)
  ELSE IF MissingKeys(parsed.val) # <<>>
  THEN Responded(slot, 500,
         [error |-> <<"Invalid response format. Missing keys: ">>
                      \o Join(MissingKeys(parsed.val), ", "),
          received |-> parsed.val], <<>>)
  ELSE Responded(slot, 200, parsed.val, <<>>)

\* the text a server hands to JSON.parse
ParseInput(srv, content) == IF srv = RootServer THEN CleanContent(content) ELSE content

SummarizeArticleResumeRetries(srv, slot, reply) ==
  CASE reply.kind = "reject" ->
         IF Cardinality({n \in DOMAIN slot.log : slot.log[n] = "fetch:openai"}) < 2
         THEN Awaiting(slot, "await_openai", <<"fetch:openai">>)
         ELSE Responded(slot, 500, [error |-> <<"fetch failed">>], <<>>)
    [] reply.kind = "http" ->
         Responded(slot, reply.status,
           [error |-> <<"OpenAI API error: ", ToString(reply.status)>>,
            details |-> <<"upstream error body">>], <<>>)
    [] reply.kind = "badbody" ->
         Responded(slot, 500, [error |-> <<"invalid json response body">>], <<>>)
    [] reply.kind = "json" ->
         IF ~Has(reply.data, "choices")
         THEN Responded(slot, 500,
                [error |-> <<"Cannot read properties of undefined (reading '0')">>], <<>>)
         ELSE IF Falsy(ChoiceContent(reply.data))
         THEN Responded(slot, 500, [error |-> <<"No content received from OpenAI">>], <<>>)
         ELSE ValidateSummary(slot, ChoiceContent(reply.data),
                              ParseInput(srv, ChoiceContent(reply.data)))

\* from the settling of the provider call to the response
SummarizeArticleResume(srv, slot, reply) ==
  CASE reply.kind = "reject" ->
         Responded(slot, 500, [error |-> <<"fetch failed">>], <<>>)
    [] reply.kind = "http" ->
         Responded(slot, reply.status,
           [error |-> <<"OpenAI API error: ", ToString(reply.status)>>,
            details |-> <<"upstream error body">>], <<>>)
    [] reply.kind = "badbody" ->
         Responded(slot, 500, [error |-> <<"invalid json response body">>], <<>>)
    [] reply.kind = "json" ->
         IF ~Has(reply.data, "choices")
         THEN Responded(slot, 500,
                [error |-> <<"Cannot read properties of undefined (reading '0')">>], <<>>)
         ELSE IF Falsy(ChoiceContent(reply.data))
         THEN Responded(slot, 500, [error |-> <<"No content received from OpenAI">>], <<>>)
         ELSE ValidateSummary(slot, ChoiceContent(reply.data),
                              ParseInput(srv, ChoiceContent(reply.data)))

(***************************************************************************)
(* saveImageToFolder and the generated file names                          *)
(***************************************************************************)
DataUrlPrefix == "data:image/jpeg;base64,"

ImageUrls == { <<"https://x/y.jpg">>, <<DataUrlPrefix, "/9j/4AAQ">> }

\* base64Data.replace(/^data:image\/[a-z]+;base64,/, '')
StripDataUrlPrefix(u) == IF u # <<>> /\ Head(u) = DataUrlPrefix THEN Tail(u) ELSE u

\* new Date(t).toISOString(), t in milliseconds
ToISOString(t) == <<"1970-01-01T00", ":", "00", ":", "00", ".", ToString(t), "Z">>

\* .replace(/[:.]/g, '-')
Dashed(s) == [n \in DOMAIN s |-> IF s[n] \in {":", "."} THEN "-" ELSE s[n]]

\* `${prefix}${timestamp}.jpg`
FileName(prefix, t) == <<prefix>> \o Dashed(ToISOString(t)) \o <<".jpg">>

\* what the file system does to mkdirSync / writeFileSync
FsOutcomes == {"ok", "EACCES"}

EmptyDisk == [dir |-> FALSE, files |-> {}]

\* fs.writeFileSync(path, data): creates the file or replaces its content
WriteFile(d, name, data) ==
  [dir |-> TRUE,
   files |-> {f \in d.files : f.name # name} \cup {[name |-> name, data |-> data]}]

SaveImageToFolderThrows(d, base64Data, filename, fs) ==
  IF fs = "ok"
  THEN [result |-> [success |-> TRUE, filename |-> filename],
        disk |-> WriteFile(d, filename, StripDataUrlPrefix(base64Data)), thrown |-> FALSE]
  ELSE [result |-> None, disk |-> d, thrown |-> TRUE]

\* the try/catch of saveImageToFolder: a result, never an exception
SaveImageToFolder(d, base64Data, filename, fs) ==
  IF fs = "ok"
  THEN [result |-> [success |-> TRUE, filename |-> filename],
        disk |-> WriteFile(d, filename, StripDataUrlPrefix(base64Data)), thrown |-> FALSE]
  ELSE [result |-> [success |-> FALSE, error |-> <<fs, ": permission denied">>],
        disk |-> d, thrown |-> FALSE]

(***************************************************************************)
(* POST /tools/fal_generate and POST /tools/fal_flux_lora_generate         *)
(***************************************************************************)
ImageData ==
  { [seed |-> <<"1">>],
    [images |-> <<>>],
    [images |-> << [content_type |-> <<"image/jpeg">>] >>],
    [images |-> << [url |-> <<>>] >>] }
  \cup { [images |-> << [url |-> u] >>] : u \in ImageUrls }

\* !data.images || !data.images[0] || !data.images[0].url
NoImageUrl(data) ==
  \/ ~Has(data, "images")
  \/ data.images = <<>>
  \/ Falsy(Get(data.images[1], "url"))

\* !loras || !Array.isArray(loras) || loras.length === 0
LorasInvalid(loras) ==
  loras = None \/ loras.kind = "null" \/ loras.kind # "array" \/ loras.items = <<>>

FalGenerate(e, slot) ==
  IF AuthenticateToken(e.BE_TOKEN, slot.req) = "401" THEN Unauthorized(slot)
  ELSE IF Falsy(Get(slot.req.body, "prompt"))
       THEN Responded(slot, 400, [error |-> <<"prompt is required">>], <<"validate">>)
  ELSE IF Falsy(e.FAL_KEY)
       THEN Responded(slot, 500, [error |-> <<"FAL API key not configured">>], <<"validate">>)
  ELSE Awaiting(slot, "await_fal", <<"validate", "fetch:fal">>)

FalFluxLoraGenerateConfigFirst(e, slot) ==
  IF AuthenticateToken(e.BE_TOKEN, slot.req) = "401" THEN Unauthorized(slot)
  ELSE IF Falsy(Get(slot.req.body, "prompt"))
       THEN Responded(slot, 400, [error |-> <<"prompt is required">>], <<"validate">>)
  ELSE IF Falsy(e.FAL_KEY)
       THEN Responded(slot, 500, [error |-> <<"FAL API key not configured">>], <<"validate">>)
  ELSE IF LorasInvalid(IF Has(slot.req.body, "loras") THEN slot.req.body.loras ELSE None)
       THEN Responded(slot, 400, [error |-> <<"loras array is required">>], <<"validate">>)
  ELSE Awaiting(slot, "await_fal", <<"validate", "fetch:fal">>)

FalFluxLoraGenerate(e, slot) ==
  IF AuthenticateToken(e.BE_TOKEN, slot.req) = "401" THEN Unauthorized(slot)
  ELSE IF Falsy(Get(slot.req.body, "prompt"))
       THEN Responded(slot, 400, [error |-> <<"prompt is required">>], <<"validate">>)
  ELSE IF LorasInvalid(IF Has(slot.req.body, "loras") THEN slot.req.body.loras ELSE None)
       THEN Responded(slot, 400, [error |-> <<"loras array is required">>], <<"validate">>)
  ELSE IF Falsy(e.FAL_KEY)
       THEN Responded(slot, 500, [error |-> <<"FAL API key not configured">>], <<"validate">>)
  ELSE Awaiting(slot, "await_fal", <<"validate", "fetch:fal">>)

\* the answer once the provider returned an image reference: file name from
\* the clock, saveImageToFolder, res.json
SaveAndAnswer(slot, d, prefix, url, t, fs) ==
  LET filename == FileName(prefix, t)
      saved == SaveImageToFolder(d, url, filename, fs)
  IN  IF saved.thrown
      THEN [slot |-> Responded(slot, 500, [error |-> <<fs, ": permission denied">>],
                               <<"fs:write">>),
            clock |-> t, disk |-> saved.disk]
      ELSE [slot |-> [Responded(slot, 200,
                        [image_url |-> url,
                         saved_to_file |-> IF saved.result.success THEN filename ELSE Null,
                         save_error |-> OrElse(Get(saved.result, "error"), Null)],
                        <<"fs:write">>)
                      EXCEPT !.wrote = IF saved.result.success THEN filename ELSE Null],
            clock |-> t, disk |-> saved.disk]

\* from the settling of the provider call to the response; persist is FALSE
\* for the server that does not save the image
ImageResume(slot, d, now, prefix, persist, reply, t, fs) ==
  LET same(sl) == [slot |-> sl, clock |-> now, disk |-> d] IN
  CASE reply.kind = "reject" ->
         same(Responded(slot, 500, [error |-> <<"fetch failed">>], <<>>))
    [] reply.kind = "http" ->
         same(Responded(slot, reply.status,
                [error |-> <<"FAL API error: ", ToString(reply.status)>>,
                 fal |-> <<"upstream error body">>], <<>>))
    [] reply.kind = "badbody" ->
         same(Responded(slot, 500, [error |-> <<"invalid json response body">>], <<>>))
    [] reply.kind = "json" ->
         IF NoImageUrl(reply.data)
         THEN same(Responded(slot, 500,
                     [error |-> <<"No image URL in FAL response">>, fal |-> reply.data], <<>>))
         ELSE IF persist
         THEN SaveAndAnswer(slot, d, prefix, reply.data.images[1].url, t, fs)
         ELSE same(Responded(slot, 200, [image_url |-> reply.data.images[1].url], <<>>))

FalGenerateResume(slot, d, now, reply, t, fs) ==
  ImageResume(slot, d, now, "generated_", TRUE, reply, t, fs)

FalFluxLoraGenerateResume(srv, slot, d, now, reply, t, fs) ==
  ImageResume(slot, d, now, "lora_", srv = RootServer, reply, t, fs)

(***************************************************************************)
(* extractContentFromURL                                                   *)
(***************************************************************************)
\* substring(0, 5000)
ContentLimit == 5000

\* a page is its elements in document order: the tag and the text inside it
Pages ==
  { <<>>,
    << [tag |-> "title", text |-> <<SP, "T", SP>>], [tag |-> "p", text |-> <<"C">>] >>,
    << [tag |-> "p", text |-> <<"C", SP, SP, "D">>] >>,
    << [tag |-> "script", text |-> <<"x">>] >> }

PageOutcomes ==
  { [kind |-> "reject", status |-> 0, html |-> <<>>],
    [kind |-> "http", status |-> 404, html |-> <<>>] }
  \cup { [kind |-> "ok", status |-> 200, html |-> h] : h \in Pages }

RECURSIVE StripTags(_)
\* script and style elements removed, every other tag replaced by a space
StripTags(html) ==
  IF html = <<>> THEN <<>>
  ELSE IF Head(html).tag \in {"script", "style"} THEN StripTags(Tail(html))
  ELSE <<SP>> \o Head(html).text \o <<SP>> \o StripTags(Tail(html))

RECURSIVE TitleMatch(_)
\* html.match(/<title[^>]*>(.*?)<\/title>/i): the first title element
TitleMatch(html) ==
  IF html = <<>> THEN Null
  ELSE IF Head(html).tag = "title" THEN Head(html).text
  ELSE TitleMatch(Tail(html))

Substring(s, n) == SubSeq(s, 1, Min(Len(s), n))

ExtractContentFromURL(url, page) ==
  CASE page.kind = "reject" ->
         [ok |-> FALSE,
          error |-> <<"Failed to extract content from URL: ", "fetch failed">>]
    [] page.kind = "http" ->
         [ok |-> FALSE,
          error |-> <<"Failed to extract content from URL: ", "HTTP error! status: ",
                      ToString(page.status)>>]
    [] page.kind = "ok" ->
         [ok |-> TRUE,
          title |-> IF TitleMatch(page.html) = Null THEN <<"Untitled">>
                    ELSE Trim(TitleMatch(page.html)),
          content |-> Substring(Trim(Collapse(StripTags(page.html))), ContentLimit),
          url |-> url]

(***************************************************************************)
(* POST /tools/process_news_url                                            *)
(***************************************************************************)
\* the catch of the workflow handler
Failed(slot, message, events) ==
  Responded(slot, 500, [error |-> message, status |-> <<"failed">>], events)

Ok(status) == status >= 200 /\ status <= 299

LoopbackAuthorizationBare(e) == IF Falsy(e.BE_TOKEN) THEN Null ELSE e.BE_TOKEN

\* summaryHeaders / imageHeaders
LoopbackAuthorization(e) == IF Falsy(e.BE_TOKEN) THEN Null ELSE Bearer(e.BE_TOKEN)

NoCtx == [extracted |-> None, summaryData |-> None, imageData |-> None]

\* from the arrival of the request to the await of the page fetch
ProcessNewsUrl(e, slot) ==
  IF AuthenticateToken(e.BE_TOKEN, slot.req) = "401" THEN Unauthorized(slot)
  ELSE IF Falsy(Get(slot.req.body, "url"))
       THEN Responded(slot, 400, [error |-> <<"url is required">>], <<"validate">>)
  ELSE [Awaiting(slot, "await_page", <<"validate", "fetch:page">>) EXCEPT !.ctx = NoCtx]

\* step 1 done, step 2 issued: the parent and the loopback slot
AfterExtract(e, slot, child, page) ==
  LET x == ExtractContentFromURL(slot.req.body.url, page) IN
  IF ~x.ok THEN [parent |-> Failed(slot, x.error, <<>>), child |-> child]
  ELSE [parent |-> [Awaiting(slot, "await_summary", <<"fetch:self:summarize_article">>)
                    EXCEPT !.ctx.extracted = x],
        child |-> Sent(child, [route |-> "summarize_article",
                               authorization |-> LoopbackAuthorization(e),
                               body |-> [text |-> x.content]])]

AfterSummaryIgnoresStatus(e, slot, child) ==
  LET summaryData == child.resp.body IN
  IF Get(summaryData, "action") = SKIP
  THEN [parent |-> [Responded(slot, 200,
                      [status |-> <<"skipped">>,
                       reason |-> <<"Content flagged as sensitive">>,
                       url |-> slot.req.body.url,
                       title |-> slot.ctx.extracted.title], <<>>)
                    EXCEPT !.ctx.summaryData = summaryData],
        child |-> child]
  ELSE [parent |-> [Awaiting(slot, "await_image", <<"fetch:self:fal_flux_lora_generate">>)
                    EXCEPT !.ctx.summaryData = summaryData],
        child |-> Sent(child, [route |-> "fal_flux_lora_generate",
                               authorization |-> LoopbackAuthorization(e),
                               body |-> [prompt |-> Get(summaryData, "image_prompt"),
                                         loras |-> [kind |-> "array",
                                                    items |-> <<DefaultLora>>]]])]

AfterSummaryNeverSkips(e, slot, child) ==
  LET summaryData == child.resp.body IN
  IF ~Ok(child.resp.status)
  THEN [parent |-> Failed(slot, <<"Summary failed: ", ToString(child.resp.status)>>, <<>>),
        child |-> child]
  ELSE [parent |-> [Awaiting(slot, "await_image", <<"fetch:self:fal_flux_lora_generate">>)
                    EXCEPT !.ctx.summaryData = summaryData],
        child |-> Sent(child, [route |-> "fal_flux_lora_generate",
                               authorization |-> LoopbackAuthorization(e),
                               body |-> [prompt |-> Get(summaryData, "image_prompt"),
                                         loras |-> [kind |-> "array",
                                                    items |-> <<DefaultLora>>]]])]

\* step 2 done: skip, or step 3 issued
AfterSummary(e, slot, child) ==
  LET summaryData == child.resp.body IN
  IF ~Ok(child.resp.status)
  THEN [parent |-> Failed(slot, <<"Summary failed: ", ToString(child.resp.status)>>, <<>>),
        child |-> child]
  ELSE IF Get(summaryData, "action") = SKIP
  THEN [parent |-> [Responded(slot, 200,
                      [status |-> <<"skipped">>,
                       reason |-> <<"Content flagged as sensitive">>,
                       url |-> slot.req.body.url,
                       title |-> slot.ctx.extracted.title], <<>>)
                    EXCEPT !.ctx.summaryData = summaryData],
        child |-> child]
  ELSE [parent |-> [Awaiting(slot, "await_image", <<"fetch:self:fal_flux_lora_generate">>)
                    EXCEPT !.ctx.summaryData = summaryData],
        child |-> Sent(child, [route |-> "fal_flux_lora_generate",
                               authorization |-> LoopbackAuthorization(e),
                               body |-> [prompt |-> Get(summaryData, "image_prompt"),
                                         loras |-> [kind |-> "array",
                                                    items |-> <<DefaultLora>>]]])]

AfterImageIgnoresStatus(slot, child) ==
  [Awaiting(slot, "await_caption", <<"fetch:openai:caption">>)
   EXCEPT !.ctx.imageData = child.resp.body]

\* step 3 done, step 4 issued
AfterImage(slot, child) ==
  IF ~Ok(child.resp.status)
  THEN Failed(slot, <<"Image generation failed: ", ToString(child.resp.status)>>, <<>>)
  ELSE [Awaiting(slot, "await_caption", <<"fetch:openai:caption">>)
        EXCEPT !.ctx.imageData = child.resp.body]

InstagramCaptionUntrimmed(captionData, summaryData) ==
  OrElse(ChoiceContent(captionData), Get(summaryData, "summary_one_liner"))

\* captionData.choices[0]?.message?.content?.trim() || summaryData.summary_one_liner
InstagramCaption(captionData, summaryData) ==
  OrElse(IF Null = ChoiceContent(captionData) THEN Null ELSE Trim(ChoiceContent(captionData)),
         Get(summaryData, "summary_one_liner"))

AfterCaptionSwapsFields(slot, reply, t) ==
  IF reply.kind # "json" \/ ~Has(reply.data, "choices")
  THEN Failed(slot, <<"Caption generation failed">>, <<>>)
  ELSE Responded(slot, 200,
         [status |-> <<"success">>,
          url |-> slot.req.body.url,
          title |-> slot.ctx.extracted.title,
          summary |-> Get(slot.ctx.summaryData, "visual_brief"),
          visual_brief |-> Get(slot.ctx.summaryData, "summary_one_liner"),
          image_prompt |-> Get(slot.ctx.summaryData, "image_prompt"),
          image_url |-> Get(slot.ctx.imageData, "image_url"),
          saved_image |-> Get(slot.ctx.imageData, "saved_to_file"),
          instagram_caption |-> InstagramCaption(reply.data, slot.ctx.summaryData),
          timestamp |-> ToISOString(t)], <<>>)

\* step 4 done: the WorkflowResult
AfterCaption(slot, reply, t) ==
  CASE reply.kind = "reject" -> Failed(slot, <<"fetch failed">>, <<>>)
    [] reply.kind = "http" ->
         Failed(slot, <<"Caption generation failed: ", ToString(reply.status)>>, <<>>)
    [] reply.kind = "badbody" -> Failed(slot, <<"invalid json response body">>, <<>>)
    [] reply.kind = "json" ->
         IF ~Has(reply.data, "choices")
         THEN Failed(slot, <<"Cannot read properties of undefined (reading '0')">>, <<>>)
         ELSE Responded(slot, 200,
                [status |-> <<"success">>,
                 url |-> slot.req.body.url,
                 title |-> slot.ctx.extracted.title,
                 summary |-> Get(slot.ctx.summaryData, "summary_one_liner"),
                 visual_brief |-> Get(slot.ctx.summaryData, "visual_brief"),
                 image_prompt |-> Get(slot.ctx.summaryData, "image_prompt"),
                 image_url |-> Get(slot.ctx.imageData, "image_url"),
                 saved_image |-> Get(slot.ctx.imageData, "saved_to_file"),
                 instagram_caption |-> InstagramCaption(reply.data, slot.ctx.summaryData),
                 timestamp |-> ToISOString(t)], <<>>)

(***************************************************************************)
(* Scenarios: what the clients send and what the outside world answers.    *)
(* "single": one client, every input.  "concurrent": MaxReqs clients with  *)
(* well-formed requests and one failure per outbound call.                 *)
(***************************************************************************)
UnknownRoute == "unknown"

RequestsOf(sc) ==
  IF sc = "single"
  THEN ClientRequests
       \cup {[route |-> UnknownRoute, authorization |-> Null, body |-> EmptyObject]}
  ELSE { [route |-> "summarize_article", authorization |-> Bearer(Secret),
          body |-> [text |-> <<"C">>]],
         [route |-> "fal_generate", authorization |-> Bearer(Secret),
          body |-> [prompt |-> <<"P">>]],
         [route |-> "fal_flux_lora_generate", authorization |-> Bearer(Secret),
          body |-> [prompt |-> <<"P">>,
                    loras |-> [kind |-> "array", items |-> <<DefaultLora>>]]],
         [route |-> "process_news_url", authorization |-> Bearer(Secret),
          body |-> [url |-> <<"https://example.com">>]],
         [route |-> UnknownRoute, authorization |-> Null, body |-> EmptyObject] }

SummaryReplies(sc) ==
  IF sc = "single" THEN FetchOutcomes(ChatData(SummaryContents))
  ELSE { [kind |-> "http", status |-> 500, data |-> None],
         [kind |-> "json", status |-> 200,
          data |-> [choices |-> << [message |-> [content |-> JsonText(GoodSummary)]] >>]],
         [kind |-> "json", status |-> 200,
          data |-> [choices |-> << [message |-> [content |-> JsonText(SkipSummary)]] >>]] }

CaptionReplies(sc) ==
  IF sc = "single" THEN FetchOutcomes(ChatData(CaptionContents))
  ELSE { [kind |-> "http", status |-> 500, data |-> None],
         [kind |-> "json", status |-> 200,
          data |-> [choices |-> << [message |-> [content |-> <<"c">>]] >>]] }

FalReplies(sc) ==
  IF sc = "single" THEN FetchOutcomes(ImageData)
  ELSE { [kind |-> "http", status |-> 500, data |-> None],
         [kind |-> "json", status |-> 200,
          data |-> [images |-> << [url |-> <<"https://x/y.jpg">>] >>]] }

PagesOf(sc) ==
  IF sc = "single" THEN PageOutcomes
  ELSE { [kind |-> "reject", status |-> 0, html |-> <<>>],
         [kind |-> "ok", status |-> 200,
          html |-> << [tag |-> "title", text |-> <<"T">>], [tag |-> "p", text |-> <<"C">>] >>] }

(***************************************************************************)
(* State                                                                   *)
(***************************************************************************)
InitWith(srvs, envs, sc) ==
  /\ server \in srvs
  /\ env \in envs
  /\ scenario = sc
  /\ reqs = [j \in Slots |-> FreeSlot]
  /\ clock = 0
  /\ disk = EmptyDisk

Init == InitWith({RootServer, ToolsServer}, Envs, "single")

InitConcurrent ==
  InitWith({RootServer},
           [BE_TOKEN : {<<>>, Secret}, OPENAI_API_KEY : {<<"sk">>}, FAL_KEY : {<<"key">>}],
           "concurrent")

\* a server that runs one handler at a time, to its response
ArrivedWhenIdle(j, route) ==
  /\ reqs[j].pc = "sent"
  /\ reqs[j].req.route = route
  /\ route \in Routes(server)
  /\ \A k \in Slots : reqs[k].pc \in {"free", "sent", "done", "lost"}

Arrived(j, route) ==
  /\ reqs[j].pc = "sent"
  /\ reqs[j].req.route = route
  /\ route \in Routes(server)

(***************************************************************************)
(* Actions                                                                 *)
(***************************************************************************)
\* the clients with a request on the wire or in the hands of a handler
InFlight == {k \in Clients : reqs[k].pc \notin {"free", "done"}}

\* a client puts a request on the wire
ClientSend(i) ==
  /\ i \in ClientIds(scenario)
  /\ reqs[i].pc = "free"
  /\ \E r \in RequestsOf(scenario) :
        reqs' = [reqs EXCEPT ![i] = [Sent(@, r) EXCEPT !.peers = InFlight]]
  /\ UNCHANGED <<server, env, scenario, clock, disk>>

\* app.use('*'): no route matches
NotFound(j) ==
  /\ reqs[j].pc = "sent"
  /\ reqs[j].req.route \notin Routes(server)
  /\ reqs' = [reqs EXCEPT ![j] =
                 Responded(@, 404, [error |-> <<"Endpoint not found">>], <<>>)]
  /\ UNCHANGED <<server, env, scenario, clock, disk>>

PostSummarizeArticle(j) ==
  /\ Arrived(j, "summarize_article")
  /\ reqs' = [reqs EXCEPT ![j] = SummarizeArticle(env, @)]
  /\ UNCHANGED <<server, env, scenario, clock, disk>>

OpenAIReturns(j) ==
  /\ reqs[j].pc = "await_openai"
  /\ \E reply \in SummaryReplies(scenario) :
        reqs' = [reqs EXCEPT ![j] = Got(SummarizeArticleResume(server, @, reply), reply)]
  /\ UNCHANGED <<server, env, scenario, clock, disk>>

PostFalGenerate(j) ==
  /\ Arrived(j, "fal_generate")
  /\ reqs' = [reqs EXCEPT ![j] = FalGenerate(env, @)]
  /\ UNCHANGED <<server, env, scenario, clock, disk>>

PostFalFluxLoraGenerate(j) ==
  /\ Arrived(j, "fal_flux_lora_generate")
  /\ reqs' = [reqs EXCEPT ![j] = FalFluxLoraGenerate(env, @)]
  /\ UNCHANGED <<server, env, scenario, clock, disk>>

\* the image provider call settles; the clock is read for the file name
FalReturns(j) ==
  /\ reqs[j].pc = "await_fal"
  /\ \E reply \in FalReplies(scenario), t \in clock..MaxClock, fs \in FsOutcomes :
        LET r == IF reqs[j].req.route = "fal_generate"
                 THEN FalGenerateResume(reqs[j], disk, clock, reply, t, fs)
                 ELSE FalFluxLoraGenerateResume(server, reqs[j], disk, clock, reply, t, fs)
            saved == IF "fs:write" \in Range(r.slot.log)
                     THEN Got(Got(r.slot, reply), [kind |-> "fs", outcome |-> fs, t |-> t])
                     ELSE Got(r.slot, reply)
        IN  /\ reqs' = [reqs EXCEPT ![j] = saved]
            /\ clock' = r.clock
            /\ disk' = r.disk
  /\ UNCHANGED <<server, env, scenario>>

PostProcessNewsUrl(j) ==
  /\ Arrived(j, "process_news_url")
  /\ reqs' = [reqs EXCEPT ![j] = ProcessNewsUrl(env, @)]
  /\ UNCHANGED <<server, env, scenario, clock, disk>>

PageReturns(i) ==
  /\ i \in Clients
  /\ reqs[i].pc = "await_page"
  /\ \E page \in PagesOf(scenario) :
        LET r == AfterExtract(env, reqs[i], reqs[Child(i)], page)
        IN  reqs' = [reqs EXCEPT ![i] = Got(r.parent, page), ![Child(i)] = r.child]
  /\ UNCHANGED <<server, env, scenario, clock, disk>>

\* the loopback request never reaches the server: fetch rejects
LoopbackFails(i) ==
  /\ i \in Clients
  /\ reqs[i].pc \in {"await_summary", "await_image"}
  /\ reqs[Child(i)].pc = "sent"
  /\ reqs' = [reqs EXCEPT ![i] = Got(Failed(@, <<"fetch failed">>, <<>>),
                                      [kind |-> "reject", status |-> 0, data |-> None]),
                          ![Child(i)].pc = "lost"]
  /\ UNCHANGED <<server, env, scenario, clock, disk>>

SummaryReturns(i) ==
  /\ i \in Clients
  /\ reqs[i].pc = "await_summary"
  /\ reqs[Child(i)].pc = "done"
  /\ LET r == AfterSummary(env, reqs[i], reqs[Child(i)])
     IN  reqs' = [reqs EXCEPT ![i] = Got(r.parent, Loopback(reqs[Child(i)])),
                              ![Child(i)] = r.child]
  /\ UNCHANGED <<server, env, scenario, clock, disk>>

ImageReturns(i) ==
  /\ i \in Clients
  /\ reqs[i].pc = "await_image"
  /\ reqs[Child(i)].pc = "done"
  /\ reqs' = [reqs EXCEPT ![i] = Got(AfterImage(@, reqs[Child(i)]),
                                      Loopback(reqs[Child(i)]))]
  /\ UNCHANGED <<server, env, scenario, clock, disk>>

CaptionReturns(i) ==
  /\ i \in Clients
  /\ reqs[i].pc = "await_caption"
  /\ \E reply \in CaptionReplies(scenario), t \in clock..MaxClock :
        /\ reqs' = [reqs EXCEPT ![i] = Got(AfterCaption(@, reply, t), reply)]
        /\ clock' = IF reqs'[i].resp.status = 200 THEN t ELSE clock
  /\ UNCHANGED <<server, env, scenario, disk>>

Next ==
  \E j \in Slots :
    \/ ClientSend(j)
    \/ NotFound(j)
    \/ PostSummarizeArticle(j)
    \/ OpenAIReturns(j)
    \/ PostFalGenerate(j)
    \/ PostFalFluxLoraGenerate(j)
    \/ FalReturns(j)
    \/ PostProcessNewsUrl(j)
    \/ PageReturns(j)
    \/ LoopbackFails(j)
    \/ SummaryReturns(j)
    \/ ImageReturns(j)
    \/ CaptionReturns(j)

Spec == Init /\ [][Next]_vars

SpecConcurrent == InitConcurrent /\ [][Next]_vars

(***************************************************************************)
(* Vocabulary of the properties                                            *)
(***************************************************************************)
\* the server has started to handle the request in slot j
Handled(j) == reqs[j].pc \notin {"free", "sent", "lost"}

Answered(j) == reqs[j].pc = "done"

RouteOf(j) == reqs[j].req.route

\* the request reached a registered handler
Routed(j) == Handled(j) /\ RouteOf(j) \in Routes(server)

SecretConfigured == ~Falsy(env.BE_TOKEN)

\* the Authorization header is missing or its token is not the secret
BadBearer(j) ==
  \/ Falsy(reqs[j].req.authorization)
  \/ TokenOf(reqs[j].req.authorization) # env.BE_TOKEN

PassedGate(j) == Routed(j) /\ (SecretConfigured => ~BadBearer(j))

\* an outcome of the outside world that is a failure of the step awaiting it
Failure(o) ==
  CASE o.kind \in {"reject", "http", "badbody"} -> TRUE
    [] o.kind = "json" -> ~Has(o.data, "choices")
    [] o.kind = "loopback" -> ~Ok(o.status)
    [] OTHER -> FALSE

WorkflowCalls ==
  { "fetch:page", "fetch:self:summarize_article",
    "fetch:self:fal_flux_lora_generate", "fetch:openai:caption" }

\* outbound calls issued by the handling of the request in slot j
CallsIssued(j) == Cardinality({n \in DOMAIN reqs[j].log : reqs[j].log[n] \in WorkflowCalls})

\* a process_news_url request with a url whose handler runs
Workflow(i) ==
  /\ i \in Clients
  /\ PassedGate(i)
  /\ RouteOf(i) = "process_news_url"
  /\ ~Falsy(Get(reqs[i].req.body, "url"))

(***************************************************************************)
(* C1: on every registered /tools/* route, with a bearer secret configured *)
(* a request whose Authorization header is missing or whose token differs  *)
(* from the secret is answered 401 {error: "unauthorized"} and its         *)
(* handling does nothing else: no body validation, no outbound call, no    *)
(* file write.  With no secret configured the request goes on to body      *)
(* validation whatever the header holds.                                   *)
(***************************************************************************)
C1_AuthGate ==
  \A j \in Slots :
    Routed(j) =>
      /\ (SecretConfigured /\ BadBearer(j)) =>
            /\ Answered(j)
            /\ reqs[j].resp = [status |-> 401, body |-> [error |-> <<"unauthorized">>]]
            /\ reqs[j].log = <<"auth:401", "respond">>
            /\ reqs[j].got = <<>>
            /\ reqs[j].wrote = Null
      /\ ~SecretConfigured =>
            /\ reqs[j].log # <<>>
            /\ reqs[j].log[1] = "validate"

\* a request with a token that is not the secret has been answered 401
C1_Witness ==
  \E j \in Slots :
    /\ Routed(j)
    /\ SecretConfigured
    /\ ~Falsy(reqs[j].req.authorization)
    /\ ~Falsy(TokenOf(reqs[j].req.authorization))
    /\ BadBearer(j)
    /\ reqs[j].resp.status = 401

(***************************************************************************)
(* C2: in process_news_url, when the summarize self-call answered with     *)
(* action "SKIP", the response is {status: "skipped", url, title} with the *)
(* extracted title, and the run made no call to the image endpoint, the    *)
(* image provider, the persister or the caption provider.                  *)
(***************************************************************************)
SummarySaysSkip(i) ==
  /\ Workflow(i)
  /\ Len(reqs[i].got) >= 2
  /\ reqs[i].got[2].kind = "loopback"
  /\ Ok(reqs[i].got[2].status)
  /\ Get(reqs[i].got[2].data, "action") = SKIP

C2_SkipShortCircuits ==
  \A i \in Clients :
    SummarySaysSkip(i) =>
      /\ Answered(i)
      /\ reqs[i].resp.status = 200
      /\ reqs[i].resp.body.status = <<"skipped">>
      /\ reqs[i].resp.body.url = reqs[i].req.body.url
      /\ reqs[i].resp.body.title =
           ExtractContentFromURL(reqs[i].req.body.url, reqs[i].got[1]).title
      /\ reqs[i].log = <<"validate", "fetch:page", "fetch:self:summarize_article", "respond">>
      /\ reqs[Child(i)].req.route = "summarize_article"
      /\ reqs[Child(i)].wrote = Null
      /\ "fetch:fal" \notin Range(reqs[Child(i)].log)
      /\ "fs:write" \notin Range(reqs[Child(i)].log)

C2_Witness ==
  \E i \in Clients :
    /\ SummarySaysSkip(i)
    /\ Answered(i)
    /\ reqs[i].resp.body.title = <<"T">>

(***************************************************************************)
(* C3: in process_news_url with a url, a failure of any step (content      *)
(* extraction, summarize self-call, image self-call, caption call) ends    *)
(* the run: the response is 500 {error, status: "failed"}, the failing     *)
(* step is the last one the run took and no outbound call follows it.      *)
(***************************************************************************)
SomeStepFailed(i) == \E n \in DOMAIN reqs[i].got : Failure(reqs[i].got[n])

C3_FailureEndsTheRun ==
  \A i \in Clients :
    (Workflow(i) /\ SomeStepFailed(i)) =>
      /\ Answered(i)
      /\ reqs[i].resp.status = 500
      /\ DOMAIN reqs[i].resp.body = {"error", "status"}
      /\ reqs[i].resp.body.status = <<"failed">>
      /\ Failure(reqs[i].got[Len(reqs[i].got)])
      /\ \A n \in 1..(Len(reqs[i].got) - 1) : ~Failure(reqs[i].got[n])
      /\ CallsIssued(i) = Len(reqs[i].got)
      /\ reqs[Child(i)].pc \notin {"sent", "await_openai", "await_fal"}

\* the image self-call failed after extraction and summary succeeded
C3_Witness ==
  \E i \in Clients :
    /\ Workflow(i)
    /\ Len(reqs[i].got) = 3
    /\ reqs[i].got[3].kind = "loopback"
    /\ Failure(reqs[i].got[3])
    /\ Answered(i)
    /\ reqs[i].resp.status = 500

(***************************************************************************)
(* C4: in process_news_url, when extraction, summarization (action other   *)
(* than SKIP), image generation and captioning all succeed, the response   *)
(* has status "success" and carries the step outputs: the extracted title, *)
(* the summarizer's summary_one_liner, visual_brief and image_prompt, the  *)
(* image endpoint's image_url and saved_to_file, the caption client's text *)
(* and the request url.                                                    *)
(***************************************************************************)
AllStepsSucceeded(i) ==
  /\ Workflow(i)
  /\ Answered(i)
  /\ Len(reqs[i].got) = 4
  /\ ~SomeStepFailed(i)

C4_SuccessCarriesStepOutputs ==
  \A i \in Clients :
    AllStepsSucceeded(i) =>
      LET got == reqs[i].got
          body == reqs[i].resp.body
      IN  /\ reqs[i].resp.status = 200
          /\ body.status = <<"success">>
          /\ body.url = reqs[i].req.body.url
          /\ body.title = ExtractContentFromURL(reqs[i].req.body.url, got[1]).title
          /\ body.summary = got[2].data.summary_one_liner
          /\ body.visual_brief = got[2].data.visual_brief
          /\ body.image_prompt = got[2].data.image_prompt
          /\ body.image_url = got[3].data.image_url
          /\ body.saved_image = got[3].data.saved_to_file
          /\ body.instagram_caption = InstagramCaption(got[4].data, got[2].data)
          /\ DOMAIN body =
               { "status", "url", "title", "summary", "visual_brief", "image_prompt",
                 "image_url", "saved_image", "instagram_caption", "timestamp" }

\* the end-to-end example: title T, summary S, brief V, prompt P, caption c
C4_Witness ==
  \E i \in Clients :
    /\ AllStepsSucceeded(i)
    /\ reqs[i].resp.body.title = <<"T">>
    /\ reqs[i].resp.body.summary = <<"S">>
    /\ reqs[i].resp.body.visual_brief = <<"V">>
    /\ reqs[i].resp.body.image_prompt = <<"P">>
    /\ reqs[i].resp.body.image_url = <<"https://x/y.jpg">>
    /\ reqs[i].resp.body.instagram_caption = <<"c">>
    /\ Null # reqs[i].resp.body.saved_image

(***************************************************************************)
(* C5: summarize_article, once past the authentication gate, answers a     *)
(* request whose text is missing or empty with 400 {error: "text is        *)
(* required"}, whether or not the text-provider credential is configured,  *)
(* and makes no call to the text-completion provider.                      *)
(***************************************************************************)
TextMissing(j) ==
  ~Has(reqs[j].req.body, "text") \/ reqs[j].req.body.text = <<>>

C5_TextRequired ==
  \A j \in Slots :
    (PassedGate(j) /\ RouteOf(j) = "summarize_article" /\ TextMissing(j)) =>
      /\ Answered(j)
      /\ reqs[j].resp = [status |-> 400, body |-> [error |-> <<"text is required">>]]
      /\ "fetch:openai" \notin Range(reqs[j].log)
      /\ reqs[j].got = <<>>

\* text is empty and no credential is configured: still 400
C5_Witness ==
  \E j \in Slots :
    /\ PassedGate(j)
    /\ RouteOf(j) = "summarize_article"
    /\ Has(reqs[j].req.body, "text")
    /\ TextMissing(j)
    /\ Falsy(env.OPENAI_API_KEY)
    /\ reqs[j].resp.status = 400

(***************************************************************************)
(* C6: summarize_article answers 200 only with a parsed object that has    *)
(* all four keys summary_one_liner, visual_brief, image_prompt and action; *)
(* when the upstream reply is valid JSON lacking any of them the response  *)
(* is 500 and its error message names every missing key.                   *)
(***************************************************************************)
\* the request in slot j is a summarize_article request whose provider call
\* returned a completion with content
SummaryReplied(j) ==
  /\ PassedGate(j)
  /\ RouteOf(j) = "summarize_article"
  /\ Len(reqs[j].got) = 1
  /\ reqs[j].got[1].kind = "json"
  /\ Has(reqs[j].got[1].data, "choices")
  /\ ~Falsy(ChoiceContent(reqs[j].got[1].data))

\* what JSON.parse makes of the text the server hands it
ParsedReply(j) == JSONParse(ParseInput(server, ChoiceContent(reqs[j].got[1].data)))

C6_MissingKeysNamed ==
  \A j \in Slots :
    SummaryReplied(j) =>
      /\ reqs[j].resp.status = 200 =>
            \A k \in Range(RequiredKeys) : Has(reqs[j].resp.body, k)
      /\ (ParsedReply(j).ok /\ MissingKeys(ParsedReply(j).val) # <<>>) =>
            /\ reqs[j].resp.status = 500
            /\ \A k \in Range(MissingKeys(ParsedReply(j).val)) :
                 k \in Range(reqs[j].resp.body.error)

\* the reply null is valid JSON with none of the keys; the answer is the
\* parse failure, which names no key
C6_Witness ==
  \E j \in Slots :
    /\ SummaryReplied(j)
    /\ ChoiceContent(reqs[j].got[1].data) = <<"null">>
    /\ reqs[j].resp.status = 500
    /\ reqs[j].resp.body.error = <<"Failed to parse OpenAI response as JSON">>

(***************************************************************************)
(* C7: a result returned by summarize_article with status 200 is the       *)
(* parsed upstream object, returned as it was parsed, and has at least the *)
(* four keys summary_one_liner, visual_brief, image_prompt, action; a      *)
(* reply object with a missing key is answered 500; a reply with all four  *)
(* keys and an extra key is answered 200 with the extra key in the result. *)
(***************************************************************************)
C7_AtLeastFourKeys ==
  \A j \in Slots :
    SummaryReplied(j) =>
      /\ reqs[j].resp.status = 200 =>
            /\ ParsedReply(j).ok
            /\ reqs[j].resp.body = ParsedReply(j).val
            /\ Range(RequiredKeys) \subseteq DOMAIN reqs[j].resp.body
      /\ (ParsedReply(j).kind = "object" /\ MissingKeys(ParsedReply(j).val) # <<>>) =>
            reqs[j].resp.status = 500
      /\ (ParsedReply(j).kind = "object" /\ MissingKeys(ParsedReply(j).val) = <<>>) =>
            /\ reqs[j].resp.status = 200
            /\ DOMAIN reqs[j].resp.body = DOMAIN ParsedReply(j).val

\* a reply with the four keys and the key "source" was answered 200
C7_Witness ==
  \E j \in Slots :
    /\ SummaryReplied(j)
    /\ reqs[j].resp.status = 200
    /\ DOMAIN reqs[j].resp.body = Range(RequiredKeys) \cup {ExtraKey}

\* C7 as stated: a 200 result has exactly the four keys
C7_ExactlyFourKeys ==
  \A j \in Slots :
    (SummaryReplied(j) /\ reqs[j].resp.status = 200) =>
      DOMAIN reqs[j].resp.body = Range(RequiredKeys)

(***************************************************************************)
(* C8: fal_flux_lora_generate, once past the authentication gate, answers  *)
(* a request with a non-empty prompt whose loras is missing, not an array  *)
(* or an empty array with 400, whether or not the image-provider           *)
(* credential is configured, and makes no provider call and writes no file.*)
(***************************************************************************)
LorasUnusable(j) ==
  \/ ~Has(reqs[j].req.body, "loras")
  \/ reqs[j].req.body.loras.kind # "array"
  \/ reqs[j].req.body.loras.items = <<>>

C8_LorasRequired ==
  \A j \in Slots :
    ( /\ PassedGate(j)
      /\ RouteOf(j) = "fal_flux_lora_generate"
      /\ ~Falsy(Get(reqs[j].req.body, "prompt"))
      /\ LorasUnusable(j) ) =>
      /\ Answered(j)
      /\ reqs[j].resp = [status |-> 400, body |-> [error |-> <<"loras array is required">>]]
      /\ "fetch:fal" \notin Range(reqs[j].log)
      /\ "fs:write" \notin Range(reqs[j].log)
      /\ reqs[j].got = <<>>
      /\ reqs[j].wrote = Null

\* {prompt, loras: []} with no credential configured: 400
C8_Witness ==
  \E j \in Slots :
    /\ PassedGate(j)
    /\ RouteOf(j) = "fal_flux_lora_generate"
    /\ ~Falsy(Get(reqs[j].req.body, "prompt"))
    /\ Has(reqs[j].req.body, "loras")
    /\ reqs[j].req.body.loras.kind = "array"
    /\ reqs[j].req.body.loras.items = <<>>
    /\ Falsy(env.FAL_KEY)
    /\ reqs[j].resp.status = 400

(***************************************************************************)
(* C9: in fal_generate and fal_flux_lora_generate of server.js, once the   *)
(* provider returned an image reference the response is 200 with image_url *)
(* set to it.  If the persister failed, saved_to_file is null, save_error  *)
(* carries the error and the call saved no file; if it succeeded,          *)
(* saved_to_file is the generated file name, save_error is null and the    *)
(* file is in the output directory.                                        *)
(***************************************************************************)
ImageReturned(j) ==
  /\ server = RootServer
  /\ PassedGate(j)
  /\ RouteOf(j) \in {"fal_generate", "fal_flux_lora_generate"}
  /\ reqs[j].got # <<>>
  /\ reqs[j].got[1].kind = "json"
  /\ ~NoImageUrl(reqs[j].got[1].data)

PrefixOf(j) == IF RouteOf(j) = "fal_generate" THEN "generated_" ELSE "lora_"

C9_PersistenceNonFatal ==
  \A j \in Slots :
    ImageReturned(j) =>
      LET body == reqs[j].resp.body
          fs == reqs[j].got[2]
          name == FileName(PrefixOf(j), fs.t)
      IN  /\ Answered(j)
          /\ reqs[j].resp.status = 200
          /\ body.image_url = reqs[j].got[1].data.images[1].url
          /\ Len(reqs[j].got) = 2
          /\ fs.kind = "fs"
          /\ fs.outcome # "ok" =>
                /\ Null = body.saved_to_file
                /\ Null # body.save_error
                /\ body.save_error # <<>>
                /\ reqs[j].wrote = Null
          /\ fs.outcome = "ok" =>
                /\ body.saved_to_file = name
                /\ Null = body.save_error
                /\ reqs[j].wrote = name
                /\ \E f \in disk.files : f.name = name

\* the write failed and the call was answered 200
C9_Witness ==
  \E j \in Slots :
    /\ ImageReturned(j)
    /\ Len(reqs[j].got) = 2
    /\ reqs[j].got[2].outcome # "ok"
    /\ reqs[j].resp.status = 200
    /\ Null = reqs[j].resp.body.saved_to_file

(***************************************************************************)
(* C10: across any interleaving of concurrent image-generation requests no *)
(* two requests write the same file: the file names of two successful      *)
(* generation calls differ, and the output directory holds one file per    *)
(* successful generation call.                                             *)
(***************************************************************************)
Saved == {j \in Slots : Null # reqs[j].wrote}

\* the client whose request the work in slot j belongs to
Owner(j) == IF j \in Clients THEN j ELSE j - MaxReqs

\* the requests of slots j and k were in flight at the same time
Concurrent(j, k) ==
  \/ Owner(j) \in reqs[Owner(k)].peers
  \/ Owner(k) \in reqs[Owner(j)].peers

C10_UniqueFiles ==
  \A j, k \in Saved :
    (j # k /\ Concurrent(j, k)) => reqs[j].wrote # reqs[k].wrote

\* two concurrent generation calls answered in the same millisecond saved
\* under one name: two successful calls, one file
C10_Witness ==
  \E j, k \in Saved :
    /\ j # k
    /\ Concurrent(j, k)
    /\ reqs[j].wrote = reqs[k].wrote
    /\ reqs[j].resp.status = 200
    /\ reqs[k].resp.status = 200
    /\ Cardinality(disk.files) = 1


(***************************************************************************)
(* C11: in the captioning step of process_news_url, when the text provider *)
(* answers 200 with a completion, instagram_caption is the provider's text *)
(* with the surrounding whitespace removed if that leaves anything, and    *)
(* the summary's summary_one_liner otherwise; the run is answered 200 with *)
(* status "success" in both cases.                                         *)
(***************************************************************************)
CaptionAnswered(i) ==
  /\ Workflow(i)
  /\ Len(reqs[i].got) = 4
  /\ reqs[i].got[4].kind = "json"
  /\ Has(reqs[i].got[4].data, "choices")

\* the text of the completion, empty when the completion carries none
CaptionText(i) ==
  LET choices == reqs[i].got[4].data.choices IN
  IF choices = <<>> \/ ~Has(choices[1].message, "content") THEN <<>>
  ELSE choices[1].message.content

C11_CaptionFallback ==
  \A i \in Clients :
    CaptionAnswered(i) =>
      /\ Answered(i)
      /\ reqs[i].resp.status = 200
      /\ reqs[i].resp.body.status = <<"success">>
      /\ reqs[i].resp.body.instagram_caption =
           IF Trim(CaptionText(i)) # <<>> THEN Trim(CaptionText(i))
           ELSE reqs[i].got[2].data.summary_one_liner

\* the provider's text is a single space: the caption is the summary
C11_Witness ==
  \E i \in Clients :
    /\ CaptionAnswered(i)
    /\ CaptionText(i) = <<SP>>
    /\ reqs[i].resp.body.status = <<"success">>
    /\ reqs[i].resp.body.instagram_caption = <<"S">>


(***************************************************************************)
(* C12: nothing is retried.  Within the handling of one request every      *)
(* outbound call (text provider, image provider, page fetch, summarize     *)
(* self-call, image self-call, caption call) is issued at most once, and a *)
(* call that failed (rejected, non-success status, unreadable body) is the *)
(* last thing the handler consumed: the request is answered with an error  *)
(* and the call is not issued again.                                       *)
(***************************************************************************)
CallEvents == WorkflowCalls \cup {"fetch:openai", "fetch:fal"}

\* how often the handling of the request in slot j did ev
Times(j, ev) == Cardinality({n \in DOMAIN reqs[j].log : reqs[j].log[n] = ev})

\* the outbound call with outcome o failed
CallFailed(o) ==
  \/ o.kind \in {"reject", "http", "badbody"}
  \/ o.kind = "loopback" /\ ~Ok(o.status)

C12_NothingRetried ==
  \A j \in Slots :
    Handled(j) =>
      /\ \A ev \in CallEvents : Times(j, ev) <= 1
      /\ \A n \in DOMAIN reqs[j].got :
           CallFailed(reqs[j].got[n]) =>
             /\ n = Len(reqs[j].got)
             /\ Answered(j)
             /\ reqs[j].resp.status >= 400
             /\ Has(reqs[j].resp.body, "error")

\* the text-provider call of a summarize_article request was rejected: one
\* call, one error response
C12_Witness ==
  \E j \in Slots :
    /\ Handled(j)
    /\ RouteOf(j) = "summarize_article"
    /\ reqs[j].got # <<>>
    /\ reqs[j].got[1].kind = "reject"
    /\ Times(j, "fetch:openai") = 1
    /\ reqs[j].resp.status = 500


(***************************************************************************)
(* C13: in every run of process_news_url the steps occur in the order      *)
(* extract, summarize, generate image (persistence inside it), caption.    *)
(* The summarize self-call is issued only after extraction succeeded, the  *)
(* image self-call only after the summarize self-call returned success     *)
(* with an action other than SKIP, the caption call only after the image   *)
(* self-call returned success, and an answered run ended in exactly one of *)
(* success, skipped or failed.                                             *)
(***************************************************************************)
WorkflowSteps ==
  << "validate", "fetch:page", "fetch:self:summarize_article",
     "fetch:self:fal_flux_lora_generate", "fetch:openai:caption" >>

\* what the handling did before it answered
StepsTaken(i) == SelectSeq(reqs[i].log, LAMBDA ev : ev # "respond")

Issued(i, ev) == ev \in Range(reqs[i].log)

\* the terminal outcome of an answered run
Outcome(i) == reqs[i].resp.body.status

C13_StepOrder ==
  \A i \in Clients :
    Workflow(i) =>
      /\ StepsTaken(i) = SubSeq(WorkflowSteps, 1, Len(StepsTaken(i)))
      /\ Issued(i, "fetch:self:summarize_article") =>
            /\ reqs[i].got[1].kind = "ok"
            /\ reqs[i].got[1].status = 200
      /\ Issued(i, "fetch:self:fal_flux_lora_generate") =>
            /\ reqs[i].got[2].kind = "loopback"
            /\ Ok(reqs[i].got[2].status)
            /\ reqs[i].got[2].data.action # SKIP
      /\ Issued(i, "fetch:openai:caption") =>
            /\ reqs[i].got[3].kind = "loopback"
            /\ Ok(reqs[i].got[3].status)
            /\ reqs[Child(i)].req.route = "fal_flux_lora_generate"
            /\ "fs:write" \in Range(reqs[Child(i)].log)
      /\ Answered(i) =>
            /\ Outcome(i) \in {<<"success">>, <<"skipped">>, <<"failed">>}
            /\ Outcome(i) = <<"success">> <=>
                  (reqs[i].resp.status = 200 /\ Len(reqs[i].got) = 4)
            /\ Outcome(i) = <<"skipped">> <=>
                  (reqs[i].resp.status = 200 /\ Len(reqs[i].got) = 2)
            /\ Outcome(i) = <<"failed">> <=> reqs[i].resp.status = 500

\* a run took all four steps in order and the image was saved before the
\* caption call
C13_Witness ==
  \E i \in Clients :
    /\ Workflow(i)
    /\ Answered(i)
    /\ StepsTaken(i) = WorkflowSteps
    /\ Outcome(i) = <<"success">>
    /\ Null # reqs[Child(i)].wrote


(***************************************************************************)
(* Scheduling.  The event loop runs every callback that is ready: a        *)
(* request that arrived is handed to its handler, and a loopback response  *)
(* is handed to the workflow handler that awaits it.  Outbound calls to    *)
(* the page host and the providers return, except that those made for      *)
(* client 1 need not: they may stay pending for ever.                      *)
(***************************************************************************)
MayHang(j) == Owner(j) = 1

HandlerStep(j) ==
  \/ NotFound(j)
  \/ PostSummarizeArticle(j)
  \/ PostFalGenerate(j)
  \/ PostFalFluxLoraGenerate(j)
  \/ PostProcessNewsUrl(j)
  \/ SummaryReturns(j)
  \/ ImageReturns(j)

CallReturns(j) ==
  \/ OpenAIReturns(j)
  \/ FalReturns(j)
  \/ PageReturns(j)
  \/ CaptionReturns(j)

Served == \E j \in Slots : HandlerStep(j) \/ (~MayHang(j) /\ CallReturns(j))

SpecLive == InitConcurrent /\ [][Next]_vars /\ WF_vars(Served)

(***************************************************************************)
(* C14: under any interleaving of concurrent requests, a request whose     *)
(* outbound calls return is eventually answered, process_news_url with its *)
(* self-calls to the same process included, whatever the other requests do *)
(* and even while the calls of another request (client 1) never return;    *)
(* and the request of client 1 is left unanswered only while an outbound   *)
(* call made for it is pending.                                            *)
(***************************************************************************)
\* an outbound call made for client i is pending
CallPending(i) ==
  \E j \in {i, Child(i)} :
    reqs[j].pc \in {"await_page", "await_openai", "await_fal", "await_caption"}

C14_EveryRequestAnswered ==
  \A i \in Clients :
    (reqs[i].pc # "free") ~>
      (reqs[i].pc = "done" \/ (MayHang(i) /\ CallPending(i)))

\* a process_news_url run ended in success while the provider call of
\* client 1 was still pending
C14_Witness ==
  \E i \in Clients :
    /\ ~MayHang(i)
    /\ reqs[i].pc = "done"
    /\ reqs[i].req.route = "process_news_url"
    /\ reqs[i].resp.status = 200
    /\ reqs[i].resp.body.status = <<"success">>
    /\ reqs[1].pc = "await_openai"
    /\ reqs[i].peers = {1}


(***************************************************************************)
(* C15: for every configuration of the bearer secret, when the             *)
(* process_news_url request passed the authentication gate, its loopback   *)
(* requests to summarize_article and fal_flux_lora_generate carry          *)
(* "Bearer <secret>" exactly when a secret is configured, and the gate     *)
(* rejects neither: both reach their handler's validation and neither is   *)
(* answered 401 {error: "unauthorized"}.                                   *)
(***************************************************************************)
\* the answer of the authentication gate to a request it rejects
GateRejection == [status |-> 401, body |-> [error |-> <<"unauthorized">>]]

\* the loopback request of client i's run is on the wire or was handled
LoopbackIssued(i) == Workflow(i) /\ reqs[Child(i)].pc # "free"

C15_LoopbackPassesGate ==
  \A i \in Clients :
    LoopbackIssued(i) =>
      /\ reqs[Child(i)].req.route \in {"summarize_article", "fal_flux_lora_generate"}
      /\ reqs[Child(i)].req.authorization =
           IF SecretConfigured THEN <<"Bearer", SP>> \o env.BE_TOKEN ELSE Null
      /\ Handled(Child(i)) =>
            /\ "auth:401" \notin Range(reqs[Child(i)].log)
            /\ reqs[Child(i)].log[1] = "validate"
      /\ Answered(Child(i)) => reqs[Child(i)].resp # GateRejection
      /\ \A n \in DOMAIN reqs[i].got :
           reqs[i].got[n].kind = "loopback" =>
             [status |-> reqs[i].got[n].status, body |-> reqs[i].got[n].data] # GateRejection

\* with a secret configured both loopback requests passed the gate
C15_Witness ==
  \E i \in Clients :
    /\ LoopbackIssued(i)
    /\ SecretConfigured
    /\ reqs[Child(i)].req.route = "fal_flux_lora_generate"
    /\ Answered(Child(i))
    /\ reqs[Child(i)].resp.status = 200
    /\ Len(reqs[i].got) >= 2
    /\ reqs[i].got[2].status = 200


(***************************************************************************)
(* C16: every request handled on a registered route is answered exactly    *)
(* once.  At every moment it either has its one response, sent as the last *)
(* thing its handling did, or has none yet and its handler is suspended in *)
(* an outbound call; no handling ever responds twice.                      *)
(***************************************************************************)
AwaitStates ==
  { "await_openai", "await_fal", "await_page",
    "await_summary", "await_image", "await_caption" }

C16_AnsweredExactlyOnce ==
  \A j \in Slots :
    Routed(j) =>
      /\ Times(j, "respond") <= 1
      /\ IF Answered(j)
         THEN /\ Times(j, "respond") = 1
              /\ reqs[j].log[Len(reqs[j].log)] = "respond"
              /\ reqs[j].resp # None
              /\ reqs[j].resp.status \in 200..599
         ELSE /\ reqs[j].pc \in AwaitStates
              /\ Times(j, "respond") = 0
              /\ reqs[j].resp = None
              /\ reqs[j].log[Len(reqs[j].log)] \in CallEvents

\* an exception caught by the handler's catch (a completion without
\* choices) was answered once
C16_Witness ==
  \E j \in Slots :
    /\ Routed(j)
    /\ RouteOf(j) = "summarize_article"
    /\ reqs[j].got # <<>>
    /\ reqs[j].got[1].kind = "json"
    /\ ~Has(reqs[j].got[1].data, "choices")
    /\ Times(j, "respond") = 1
    /\ reqs[j].resp.status = 500


(***************************************************************************)
(* C17: for every summary that summarize_article accepted (200, all four   *)
(* keys) with an action other than SKIP, the image self-call of the        *)
(* workflow to fal_flux_lora_generate passes that endpoint's validation:   *)
(* it is never answered 400, and with the image-provider credential        *)
(* configured the image provider is called.                                *)
(***************************************************************************)
SummaryAccepted(i) ==
  /\ Workflow(i)
  /\ Len(reqs[i].got) >= 2
  /\ reqs[i].got[2].kind = "loopback"
  /\ reqs[i].got[2].status = 200
  /\ Range(RequiredKeys) \subseteq DOMAIN reqs[i].got[2].data
  /\ reqs[i].got[2].data.action # SKIP

C17_ImageCallValid ==
  \A i \in Clients :
    (SummaryAccepted(i) /\ Handled(Child(i))) =>
      /\ reqs[Child(i)].req.route = "fal_flux_lora_generate"
      /\ Answered(Child(i)) => reqs[Child(i)].resp.status # 400
      /\ ~Falsy(env.FAL_KEY) => "fetch:fal" \in Range(reqs[Child(i)].log)

\* the accepted summary has image_prompt "": the self-call is answered 400
\* "prompt is required" and the run fails
C17_Witness ==
  \E i \in Clients :
    /\ SummaryAccepted(i)
    /\ reqs[i].got[2].data.image_prompt = <<>>
    /\ ~Falsy(env.FAL_KEY)
    /\ Answered(Child(i))
    /\ reqs[Child(i)].resp = [status |-> 400, body |-> [error |-> <<"prompt is required">>]]
    /\ "fetch:fal" \notin Range(reqs[Child(i)].log)
    /\ Answered(i)
    /\ reqs[i].resp.status = 500
    /\ reqs[i].resp.body.status = <<"failed">>

====
